---------------------------- MODULE Spec2Model ----------------------------
(***************************************************************************)
(* State-machine model of the ESP32 MicroPython weather station            *)
(* (src/esp32-micropython/main.py): startup, the wireless association      *)
(* poll, the per-cycle acquisition, the retrying delivery loop and the     *)
(* cycle-boundary fault handling of main_loop.                             *)
(*                                                                         *)
(* The program is single threaded.  Each action is one stretch of code     *)
(* between two points where the environment is consulted (the radio's      *)
(* isconnected(), the clock, the HTTP endpoint, the operator's Ctrl+C).    *)
(* Environment answers are drawn with \E from small sets.                  *)
(***************************************************************************)
EXTENDS Integers, Sequences, FiniteSets, TLC

\* ------------------------------------------------------------ constants
MAX_RETRIES == 3
RETRY_DELAY == 10
MEASUREMENT_INTERVAL == 300
WIFI_TIMEOUT == 20
POLL_SLEEP == 2
COOLDOWN == 30

\* ------------------------------------------------------------ bounds
\* number of measurement cycles main_loop is followed for
MaxCycles == 2

NULL == "null"

\* HTTP outcomes of requests.post: a status code, or 0 for an exception
\* raised by the transport (timeout, connection failure).
TransportError == 0
Responses == {201, 200, 500, TransportError}

\* seconds the integer clock time.time() may advance over one poll
\* iteration (blink_led(1, 100) = 0.2 s, then time.sleep(2)).
PollAdvance == {POLL_SLEEP, POLL_SLEEP + 1}

VARIABLES
    pc,                 \* position of the single control flow
    ret,                \* caller of the running connect_wifi
    wlan,               \* global wlan is not None
    elapsed,            \* time.time() - start_time inside connect_wifi
    polls,              \* poll iterations of the running connect_wifi
    assoc,              \* wlan.connect() requests of the running connect_wifi
                        \* (these three are 0 outside connect_wifi)
    measurement_count,  \* global measurement_count
    sensor_data,        \* the cycle's reading (a dict)
    payload,            \* the payload built for the current attempt
    attempt,            \* loop variable of send_measurement_with_retry
    posts,              \* HTTP POSTs of the current invocation
    sleeps,             \* time.sleep(RETRY_DELAY) calls of the invocation
    gates,              \* check_wifi() results of the invocation, in order
    via,                \* how the last gate decided: "link" / "connect"
    codes,              \* outcomes of the invocation's POSTs, in order
    result,             \* how the invocation ended
    fault,              \* exception raised in the current cycle / at startup
    startup,            \* outcome of startup_sequence
    conn,               \* what the last connect_wifi() returned
    cycles,             \* cycles started
    built,              \* payloads create_measurement_payload has returned
    sent,               \* measurementCount values of all POSTs, in order
    led,                \* blink_led calls made by the last step
    led_hw,             \* whether the LED hardware worked in those calls
    led_int,            \* whether a KeyboardInterrupt arrived inside them
    slept,              \* time.sleep seconds spent by the last step
    reads,              \* wlan.isconnected() results read by the last step
    mock,               \* locals and results of the mock sensor functions
    boot,               \* inputs and progress of the boot script (boot.py)
    verify              \* inputs and result of the backfill tool's check

vars == <<pc, ret, wlan, elapsed, polls, assoc, measurement_count,
          sensor_data, payload, attempt, posts, sleeps, gates, via, codes,
          result, fault, startup, conn, cycles, built, sent, led, led_hw,
          led_int, slept, reads, mock, boot, verify>>

\* state of the programs beside the weather station
asideVars == <<mock, boot, verify>>

connVars == <<elapsed, polls, assoc>>
deliverVars == <<attempt, posts, sleeps, gates, via, codes, result>>
cycleVars == <<sensor_data, payload, cycles>>
countVars == <<measurement_count, built, sent>>

\* blink_led(times, delay_ms)
Blink(times, delay_ms) == <<times, delay_ms>>

\* the blink patterns the program uses
BootBlink == Blink(1, 500)
PollBlink == Blink(1, 100)
ConnectedBlink100 == Blink(3, 100)
ConnectedBlink == Blink(3, 200)
SuccessBlink == Blink(2, 100)
ExhaustedBlink == Blink(5, 100)
PanicBlink == Blink(10, 100)

NoPayload == [none |-> TRUE]
NoReading == [none |-> TRUE]

Init ==
    /\ pc = "start"
    /\ ret = "none"
    /\ wlan = FALSE
    /\ elapsed = 0
    /\ polls = 0
    /\ assoc = 0
    /\ measurement_count = 0
    /\ sensor_data = NoReading
    /\ payload = NoPayload
    /\ attempt = 0
    /\ posts = 0
    /\ sleeps = 0
    /\ gates = <<>>
    /\ via = "none"
    /\ codes = <<>>
    /\ result = "none"
    /\ fault = "none"
    /\ startup = "pending"
    /\ conn = "none"
    /\ cycles = 0
    /\ built = 0
    /\ sent = <<>>
    /\ led = <<>>
    /\ led_hw = TRUE
    /\ led_int = FALSE
    /\ slept = <<>>
    /\ reads = <<>>
    /\ mock = NoReading
    /\ boot = NoReading
    /\ verify = NoReading

\* ------------------------------------------------------------ decisions
\* a variant of IsSuccess that accepts every 2xx status
IsSuccessAny2xx(code) == code >= 200 /\ code <= 299

\* send_measurement: `if response.status_code == 201`
IsSuccess(code) == code = 201

\* variants of WaitBeforeRetry: no wait after the first failure / a wait
\* after the last one as well
WaitAfterFirstOnly(a) == a > 1 /\ a < MAX_RETRIES
WaitAlways(a) == a <= MAX_RETRIES

\* send_measurement_with_retry: `if attempt < MAX_RETRIES:` before the
\* retry sleep
WaitBeforeRetry(a) == a < MAX_RETRIES

\* a variant of NeedsReconnect that never looks at the link
NeedsReconnectNoLinkCheck(wl, up) == ~wl

\* check_wifi: `if not wlan or not wlan.isconnected():`
NeedsReconnect(wl, up) == (~wl) \/ (~up)

\* a variant of SendAfterGate without the `continue`
SendRegardless(g) == TRUE

\* send_measurement_with_retry: `if not check_wifi(): ... continue`;
\* the attempt goes on to build and send only when the gate returned True
SendAfterGate(g) == g

\* a variant of AlreadyConnected without the early return
NeverAlready(up) == FALSE

\* connect_wifi: `if wlan.isconnected(): ... return True` before any
\* association request
AlreadyConnected(up) == up

\* a variant of PollAgain without the timeout
PollAgainNoTimeout(e) == TRUE

\* connect_wifi: the `(time.time() - start_time) < timeout` half of the
\* while condition
PollAgain(e) == e < WIFI_TIMEOUT

\* a variant of OnCycleFault whose handler leaves the loop
OnCycleFaultBreak == "stopped"

\* main_loop: `except Exception` sleeps 30 s and loops again
OnCycleFault == "cooldown"

\* a variant of AfterStartup that ignores startup_sequence's result
AfterStartupAlways(ok) == "cycle"

\* entry point: `if startup_sequence(): main_loop()  else: halting`
AfterStartup(ok) == IF ok THEN "cycle" ELSE "halted"

\* ------------------------------------------------------------ fragments
\* a variant of AfterBlink in which a failing LED ends the program
AfterBlinkPropagates(ok, target) == IF ok THEN target ELSE "stopped"

\* blink_led wraps its whole body in `try: ... except: pass`: whether or
\* not the LED hardware worked, it returns and control goes on to `target`
AfterBlink(ok, target) == target

\* blink_led's `except:` is bare, so it also catches a KeyboardInterrupt
\* raised inside the try body (in machine.Pin or time.sleep_ms): blink_led
\* returns and control goes on to `target`
AfterInterruptedBlink(int, target) == target

\* The step makes the blink_led calls ev and goes on to target.  An
\* interrupt arrives inside a blink during its time.sleep_ms calls, which
\* run only when the Pin works.
Led(ev, target) ==
    /\ led' = ev
    /\ \E ok \in (IF ev = <<>> THEN {TRUE} ELSE BOOLEAN),
          int \in (IF ev = <<>> THEN {FALSE} ELSE BOOLEAN) :
          /\ int => ok
          /\ led_hw' = ok
          /\ led_int' = int
          /\ pc' = AfterInterruptedBlink(int, AfterBlink(ok, target))

\* An exception (not KeyboardInterrupt) raised by the running step.  In
\* startup_sequence it reaches the entry point's `except Exception`
\* (panic blink, stop); inside main_loop it reaches the loop's handler.
Raised(kind, ev) ==
    /\ fault' = kind
    /\ slept' = <<>>
    /\ IF startup = "pending"
         THEN /\ startup' = "fatal"
              /\ result' = result
              /\ Led(ev \o <<PanicBlink>>, "stopped")
         ELSE /\ startup' = startup
              /\ result' = "raised"
              /\ Led(ev, OnCycleFault)

\* a variant of AfterDeliver that treats a False delivery as a fault
AfterDeliverFalseCools(r) == IF r THEN "gc" ELSE "cooldown"

\* main_loop calls send_measurement_with_retry(sensor_data) as a statement:
\* whatever it returns, gc.collect() is next
AfterDeliver(r) == "gc"

\* a variant of LoopNext that blinks 5 times after every failed attempt
LoopNextBlinkEach(ev) ==
    IF attempt < MAX_RETRIES
      THEN /\ attempt' = attempt + 1
           /\ result' = result
           /\ Led(ev \o <<ExhaustedBlink>>, "gate")
      ELSE /\ attempt' = attempt
           /\ result' = "false"
           /\ Led(ev \o <<ExhaustedBlink>>, AfterDeliver(FALSE))

\* End of one iteration of `for attempt in range(1, MAX_RETRIES + 1)`
\* without a return: the next attempt, or the code after the loop
\* (log, blink_led(5, 100), return False).
LoopNext(ev) ==
    IF attempt < MAX_RETRIES
      THEN /\ attempt' = attempt + 1
           /\ result' = result
           /\ Led(ev, "gate")
      ELSE /\ attempt' = attempt
           /\ result' = "false"
           /\ Led(ev \o <<ExhaustedBlink>>, AfterDeliver(FALSE))

\* a variant of SkipAttempt in which a skipped send does not use up an attempt
SkipKeepsAttempt(ev) ==
    /\ attempt' = attempt
    /\ result' = result
    /\ Led(ev, "gate")

\* the `continue` after a failed gate: the for loop moves on to the next
\* attempt
SkipAttempt(ev) == LoopNext(ev)

\* check_wifi() has returned g in the current attempt.
GateDecided(g, how, ev) ==
    /\ gates' = Append(gates, g)
    /\ via' = how
    /\ IF SendAfterGate(g)
         THEN /\ Led(ev, "build")
              /\ UNCHANGED <<attempt, result, sleeps>>
              /\ slept' = <<>>
         ELSE /\ sleeps' = sleeps + 1
              /\ slept' = <<RETRY_DELAY>>
              /\ SkipAttempt(ev)

\* connect_wifi() returns r to its caller.
ConnectWifiReturns(r, ev) ==
    /\ conn' = IF r THEN "true" ELSE "false"
    /\ ret' = "none"
    /\ IF ret = "startup"
         THEN /\ startup' = IF r THEN "ok" ELSE "failed"
              /\ Led(ev, AfterStartup(r))
              /\ slept' = <<>>
              /\ UNCHANGED deliverVars
         ELSE /\ startup' = startup
              /\ GateDecided(r, "connect", ev)
              /\ UNCHANGED <<posts, codes>>

\* ------------------------------------------------------------ actions
\* startup_sequence up to its call of connect_wifi
StartupSequence ==
    /\ pc = "start"
    /\ Led(<<BootBlink>>, "cw_entry")
    /\ ret' = "startup"
    /\ slept' = <<>>
    /\ reads' = <<>>
    /\ UNCHANGED <<wlan, connVars, deliverVars, cycleVars, countVars,
                   fault, startup, conn>>
    /\ UNCHANGED asideVars

\* connect_wifi, link already up: returns True at once
ConnectWifiAlready ==
    /\ pc = "cw_entry"
    /\ wlan' = TRUE
    /\ elapsed' = 0 /\ polls' = 0 /\ assoc' = 0
    /\ \E up \in BOOLEAN : AlreadyConnected(up) /\ reads' = <<up>>
    /\ ConnectWifiReturns(TRUE, <<>>)
    /\ UNCHANGED <<cycleVars, countVars, fault>>
    /\ UNCHANGED asideVars

\* connect_wifi, link down: wlan.connect(), start_time = time.time()
ConnectWifiAssociate ==
    /\ pc = "cw_entry"
    /\ wlan' = TRUE
    /\ elapsed' = 0 /\ polls' = 0 /\ assoc' = 1
    /\ \E up \in BOOLEAN : ~AlreadyConnected(up) /\ reads' = <<up>>
    /\ Led(<<>>, "cw_poll")
    /\ slept' = <<>>
    /\ UNCHANGED <<ret, deliverVars, cycleVars, countVars, fault, startup,
                   conn>>
    /\ UNCHANGED asideVars

\* connect_wifi, link down and wlan.connect() raises OSError
ConnectWifiAssocFault ==
    /\ pc = "cw_entry"
    /\ wlan' = TRUE
    /\ elapsed' = 0 /\ polls' = 0 /\ assoc' = 0
    /\ ret' = "none"
    /\ \E up \in BOOLEAN : ~AlreadyConnected(up) /\ reads' = <<up>>
    /\ Raised("OSError", <<>>)
    /\ UNCHANGED <<attempt, posts, sleeps, gates, via, codes, cycleVars,
                   countVars, conn>>
    /\ UNCHANGED asideVars

\* one iteration of `while not wlan.isconnected() and elapsed < timeout`
ConnectWifiPoll ==
    /\ pc = "cw_poll"
    /\ PollAgain(elapsed)
    /\ \E dt \in PollAdvance : elapsed' = elapsed + dt
    /\ polls' = polls + 1
    /\ reads' = <<FALSE>>
    /\ Led(<<PollBlink>>, "cw_poll")
    /\ slept' = <<POLL_SLEEP>>
    /\ UNCHANGED <<ret, wlan, assoc, deliverVars, cycleVars, countVars,
                   fault, startup, conn>>
    /\ UNCHANGED asideVars

\* the loop ends (link seen up, or timeout) and the final
\* `if wlan.isconnected()` decides the result
ConnectWifiFinish ==
    /\ pc = "cw_poll"
    /\ \E up \in BOOLEAN, up2 \in BOOLEAN :
          /\ up \/ ~PollAgain(elapsed)
          /\ reads' = <<up, up2>>
          /\ IF up2 THEN ConnectWifiReturns(TRUE, <<ConnectedBlink>>)
                    ELSE ConnectWifiReturns(FALSE, <<>>)
    /\ elapsed' = 0 /\ polls' = 0 /\ assoc' = 0
    /\ UNCHANGED <<wlan, cycleVars, countVars, fault>>
    /\ UNCHANGED asideVars

\* get_sensor_readings: the mock reading, or, when generating it raises,
\* the error dict of the except branch (which has no "type" key).
OkReading ==
    [temperature |-> "measured", humidity |-> "measured",
     status |-> "ok", type |-> "mock"]

ErrorReading ==
    [temperature |-> NULL, humidity |-> NULL,
     status |-> "error", error |-> "sensor fault"]

\* main_loop: a cycle starts, get_sensor_readings() returns, and
\* send_measurement_with_retry is entered (attempt = 1)
GetSensorReadings ==
    /\ pc = "cycle"
    /\ cycles < MaxCycles
    /\ cycles' = cycles + 1
    /\ \E sensorFault \in BOOLEAN :
          sensor_data' = IF sensorFault THEN ErrorReading ELSE OkReading
    /\ attempt' = 1
    /\ Led(<<>>, "gate")
    /\ slept' = <<>>
    /\ reads' = <<>>
    /\ UNCHANGED <<ret, wlan, connVars, countVars, startup, conn, payload,
                   posts, sleeps, gates, via, codes, result, fault>>
    /\ UNCHANGED asideVars

\* check_wifi with the link up: returns True without connect_wifi
CheckWifiUp ==
    /\ pc = "gate"
    /\ \E up \in BOOLEAN :
          /\ ~NeedsReconnect(wlan, up)
          /\ reads' = <<up>>
          /\ GateDecided(TRUE, IF up THEN "link" ELSE "nolink", <<>>)
    /\ UNCHANGED <<ret, wlan, connVars, posts, codes, cycleVars, countVars,
                   fault, startup, conn>>
    /\ UNCHANGED asideVars

\* check_wifi with the link down: `return connect_wifi()`
CheckWifiReconnect ==
    /\ pc = "gate"
    /\ \E up \in BOOLEAN : NeedsReconnect(wlan, up) /\ reads' = <<up>>
    /\ Led(<<>>, "cw_entry")
    /\ ret' = "gate"
    /\ slept' = <<>>
    /\ UNCHANGED <<wlan, connVars, deliverVars, cycleVars, countVars, fault,
                   startup, conn>>
    /\ UNCHANGED asideVars

\* the dict literal of create_measurement_payload; c1 and c2 are the two
\* `wlan and wlan.isconnected()` reads of networkInfo
PayloadDict(sd, count, c1, c2) ==
    [deviceId |-> "ESP32-001",
     temperature |-> sd.temperature,
     humidity |-> sd.humidity,
     recordedAt |-> NULL,
     measurementCount |-> count,
     sensorStatus |-> sd.status,
     sensorType |-> sd.type,
     rssi |-> IF c1 THEN "rssi" ELSE NULL,
     ip |-> IF c2 THEN "ip" ELSE NULL]

\* `if sensor_data["status"] == "error": payload["payload"]["error"] = ...`
WithError(sd, p) ==
    IF sd.status = "error"
      THEN p @@ [error |-> IF "error" \in DOMAIN sd THEN sd.error
                                                   ELSE "Unknown error"]
      ELSE p

\* create_measurement_payload returns a payload
CreatePayload ==
    /\ pc = "build"
    /\ measurement_count' = measurement_count + 1
    /\ "type" \in DOMAIN sensor_data
    /\ \E c1 \in BOOLEAN, c2 \in BOOLEAN :
          /\ reads' = <<c1, c2>>
          /\ payload' = WithError(sensor_data,
                        PayloadDict(sensor_data, measurement_count + 1, c1, c2))
    /\ built' = built + 1
    /\ Led(<<>>, "send")
    /\ slept' = <<>>
    /\ UNCHANGED <<ret, wlan, connVars, deliverVars, sensor_data, cycles,
                   sent, fault, startup, conn>>
    /\ UNCHANGED asideVars

\* create_measurement_payload raises KeyError: sensor_data["type"] on the
\* error dict, after measurement_count was incremented
CreatePayloadKeyError ==
    /\ pc = "build"
    /\ measurement_count' = measurement_count + 1
    /\ "type" \notin DOMAIN sensor_data
    /\ reads' = <<>>
    /\ Raised("KeyError", <<>>)
    /\ UNCHANGED <<ret, wlan, connVars, attempt, posts, sleeps, gates, via,
                   codes, cycleVars, built, sent, conn>>
    /\ UNCHANGED asideVars

\* create_measurement_payload raises OSError: the link drops between
\* `wlan.isconnected()` and `wlan.status('rssi')`, which the ESP32 port
\* answers with an exception when the station has no access point
CreatePayloadStatusError ==
    /\ pc = "build"
    /\ measurement_count' = measurement_count + 1
    /\ "type" \in DOMAIN sensor_data
    /\ reads' = <<TRUE>>
    /\ Raised("OSError", <<>>)
    /\ UNCHANGED <<ret, wlan, connVars, attempt, posts, sleeps, gates, via,
                   codes, cycleVars, built, sent, conn>>
    /\ UNCHANGED asideVars

\* a variant of SendFault in which a transport error leaves send_measurement
SendFaultOnTransportError(code) ==
    IF code = TransportError THEN "OSError" ELSE "none"

\* send_measurement: the exception that leaves it for a given outcome of the
\* request; `except Exception` returns False for every one, and the finally
\* block's response.close() is itself guarded
SendFault(code) == "none"

\* a variant of SendBlinks in which a failed attempt blinks once
SendBlinksOnFailureToo(ok) == <<IF ok THEN SuccessBlink ELSE PollBlink>>

\* send_measurement: blink_led(2, 100) on 201; the other branches and the
\* except handler only log
SendBlinks(ok) == IF ok THEN <<SuccessBlink>> ELSE <<>>

\* send_measurement and the rest of the loop body: one POST, its outcome,
\* `return True`, or the retry sleep and the next iteration
SendMeasurement ==
    /\ pc = "send"
    /\ \E code \in Responses :
          /\ codes' = Append(codes, code)
          /\ IF IsSuccess(code)
               THEN /\ result' = "true"
                    /\ Led(SendBlinks(TRUE), AfterDeliver(TRUE))
                    /\ slept' = <<>>
                    /\ UNCHANGED <<attempt, sleeps, fault, startup>>
               ELSE IF SendFault(code) # "none"
               THEN /\ Raised(SendFault(code), <<>>)
                    /\ UNCHANGED <<attempt, sleeps>>
               ELSE /\ IF WaitBeforeRetry(attempt)
                         THEN sleeps' = sleeps + 1 /\ slept' = <<RETRY_DELAY>>
                         ELSE sleeps' = sleeps /\ slept' = <<>>
                    /\ LoopNext(SendBlinks(FALSE))
                    /\ UNCHANGED <<fault, startup>>
    /\ posts' = posts + 1
    /\ reads' = <<>>
    /\ sent' = Append(sent, payload.measurementCount)
    /\ payload' = NoPayload
    /\ UNCHANGED <<ret, wlan, connVars, gates, via, sensor_data, cycles,
                   measurement_count, built, conn>>
    /\ UNCHANGED asideVars

\* The end of one pass through the `while True` body: the cycle's locals
\* (sensor_data, the delivery's loop state, the caught exception) are gone.
CycleEnds ==
    /\ sensor_data' = NoReading
    /\ payload' = NoPayload
    /\ attempt' = 0
    /\ posts' = 0
    /\ sleeps' = 0
    /\ gates' = <<>>
    /\ via' = "none"
    /\ codes' = <<>>
    /\ result' = "none"
    /\ fault' = "none"

\* main_loop after the delivery returned: gc.collect() and
\* time.sleep(MEASUREMENT_INTERVAL)
ReclaimAndSleep ==
    /\ pc = "gc"
    /\ Led(<<>>, "cycle")
    /\ reads' = <<>>
    /\ slept' = <<MEASUREMENT_INTERVAL>>
    /\ CycleEnds
    /\ UNCHANGED <<ret, wlan, connVars, cycles, countVars, startup, conn>>
    /\ UNCHANGED asideVars

\* main_loop's `except Exception`: time.sleep(30), then the next cycle
Cooldown ==
    /\ pc = "cooldown"
    /\ Led(<<>>, "cycle")
    /\ reads' = <<>>
    /\ slept' = <<COOLDOWN>>
    /\ CycleEnds
    /\ UNCHANGED <<ret, wlan, connVars, cycles, countVars, startup, conn>>
    /\ UNCHANGED asideVars

\* KeyboardInterrupt: main_loop's handler breaks out of the loop; outside
\* the loop's try (startup, the cooldown sleep) no handler takes it and the
\* entry point's `finally` ends the program
Interrupt ==
    /\ pc \notin {"halted", "stopped"}
    /\ Led(<<>>, "stopped")
    /\ fault' = "KeyboardInterrupt"
    /\ ret' = "none"
    /\ slept' = <<>>
    /\ reads' = <<>>
    /\ UNCHANGED <<wlan, connVars, deliverVars, cycleVars, countVars,
                   startup, conn>>
    /\ UNCHANGED asideVars

Next ==
    \/ StartupSequence
    \/ ConnectWifiAlready
    \/ ConnectWifiAssociate
    \/ ConnectWifiAssocFault
    \/ ConnectWifiPoll
    \/ ConnectWifiFinish
    \/ GetSensorReadings
    \/ CheckWifiUp
    \/ CheckWifiReconnect
    \/ CreatePayload
    \/ CreatePayloadKeyError
    \/ CreatePayloadStatusError
    \/ SendMeasurement
    \/ ReclaimAndSleep
    \/ Cooldown
    \/ Interrupt

Spec == Init /\ [][Next]_vars

\* The single control flow keeps running: every blocking call (sleep, poll,
\* POST with its timeout) returns, so some step is always taken while one
\* is possible.
LiveSpec == Spec /\ WF_vars(Next)

\* ------------------------------------------------------------ properties
Status(sd) == IF "status" \in DOMAIN sd THEN sd.status ELSE "none"
Returned == result \in {"true", "false"}
AllGates(b) == \A i \in 1..Len(gates) : gates[i] = b
Created(i) == codes[i] = 201
FirstCreated == CHOOSE k \in 1..Len(codes) :
                    Created(k) /\ \A j \in 1..(k - 1) : ~Created(j)
TrueGates == Cardinality({i \in 1..Len(gates) : gates[i]})

\* C1: send_measurement_with_retry returns True if and only if one of the
\* POSTs of that invocation, at most MAX_RETRIES of them, was answered with
\* status 201; no other outcome (200, 500, a transport error) gives True.
C1_TrueIffCreated ==
    /\ Len(codes) <= MAX_RETRIES
    /\ (result = "true") <=> (\E i \in 1..Len(codes) : Created(i))
    /\ Returned => pc \in {"gc", "stopped"}

C1_Witness ==
    /\ pc = "gc"
    /\ result = "true"
    /\ codes = <<200, 0, 201>>

\* C2: when every gate of the invocation passed and the first 201 came on
\* attempt k, the invocation returned True with exactly k POSTs and exactly
\* k-1 retry sleeps, the 201 being its last POST and the returning step
\* sleeping nothing.
C2_SuccessAtK ==
    (result = "true" /\ AllGates(TRUE)) =>
        /\ posts = FirstCreated
        /\ Len(codes) = FirstCreated
        /\ attempt = FirstCreated
        /\ sleeps = FirstCreated - 1
        /\ slept = <<>> \/ pc = "stopped"

C2_Witness ==
    /\ pc = "gc"
    /\ result = "true"
    /\ AllGates(TRUE)
    /\ codes = <<500, 500, 201>>
    /\ posts = 3
    /\ sleeps = 2

\* C3: when every gate of the invocation passed and no POST was answered
\* 201, the invocation returned False after exactly MAX_RETRIES POSTs and
\* exactly MAX_RETRIES-1 retry sleeps, the returning step sleeping nothing.
C3_ExhaustedAfterMax ==
    (result = "false" /\ AllGates(TRUE)) =>
        /\ posts = MAX_RETRIES
        /\ sleeps = MAX_RETRIES - 1
        /\ \A i \in 1..Len(codes) : ~Created(i)
        /\ slept = <<>> \/ pc = "stopped"

C3_Witness ==
    /\ pc = "gc"
    /\ result = "false"
    /\ AllGates(TRUE)
    /\ posts = MAX_RETRIES
    /\ sleeps = MAX_RETRIES - 1

\* C4: while every gate of the invocation has failed no POST has been
\* issued, and such an invocation ends only by returning False after
\* MAX_RETRIES attempts.
C4_NoSendWithoutLink ==
    AllGates(FALSE) =>
        /\ posts = 0
        /\ codes = <<>>
        /\ pc \notin {"build", "send"}
        /\ Returned => (result = "false" /\ Len(gates) = MAX_RETRIES
                           /\ attempt = MAX_RETRIES)

C4_Witness ==
    /\ pc = "gc"
    /\ result = "false"
    /\ gates = <<FALSE, FALSE, FALSE>>
    /\ posts = 0

\* C5: one invocation never sleeps RETRY_DELAY more than MAX_RETRIES-1
\* times, and the step that returns False after the final failed attempt
\* sleeps nothing, whatever made the attempts fail.
C5_NoWaitAfterFinalAttempt ==
    /\ sleeps <= MAX_RETRIES - 1
    /\ (pc = "gc" /\ result = "false") => slept = <<>>

\* C6: an exception raised inside a cycle of main_loop takes the loop to its
\* handler and not out of the loop; the handler sleeps the 30 s cooldown and
\* the loop is at the start of the next cycle, unless the operator
\* interrupts; this is so however many cycles faulted before.
C6_FaultContained ==
    [][ /\ (startup = "ok" /\ fault = "none"
              /\ fault' \in {"KeyError", "OSError"})
            => pc' = "cooldown"
        /\ (pc = "cooldown" /\ fault' # "KeyboardInterrupt")
            => (pc' = "cycle" /\ slept' = <<COOLDOWN>> /\ cycles' = cycles)
      ]_vars

C6_Witness ==
    /\ pc = "cycle"
    /\ slept = <<COOLDOWN>>
    /\ cycles = 2
    /\ measurement_count = 2
    /\ built = 0

\* C7: a reading with status error never ends its cycle in the fault
\* handler, and the payload built from it carries sensorStatus "error" and
\* the error detail.
C7_ErrorReadingSent ==
    Status(sensor_data) = "error" =>
        /\ pc # "cooldown"
        /\ fault # "KeyError"
        /\ pc = "send" => /\ payload.sensorStatus = "error"
                          /\ "error" \in DOMAIN payload

\* C8: measurement_count equals the number of payloads
\* create_measurement_payload has returned since startup, in every
\* reachable state.
C8_CountEqualsBuilt == measurement_count = built

\* C9: a POST is issued only in an attempt whose gate returned True; the
\* gate returns True without connect_wifi when the link is up, and
\* otherwise exactly what connect_wifi returned.
C9_GateBeforePost ==
    /\ pc \in {"build", "send"} =>
          (Len(gates) = attempt /\ gates[attempt] = TRUE)
    /\ Len(codes) = posts
    /\ posts <= TrueGates
    /\ via # "nolink"
    /\ via = "link" => gates[Len(gates)] = TRUE
    /\ via = "connect" => gates[Len(gates)] = (conn = "true")

C9_Witness ==
    /\ pc = "send"
    /\ via = "connect"
    /\ conn = "true"
    /\ gates = <<TRUE, FALSE, TRUE>>
    /\ posts = 1

\* C10: when the connect_wifi of startup_sequence does not succeed the
\* program has halted without entering main_loop: no cycle, no reading, no
\* payload, no POST, measurement_count 0, and no further step.
C10_StartupFailureHalts ==
    startup \in {"failed", "fatal"} =>
        /\ pc \in {"halted", "stopped"}
        /\ cycles = 0
        /\ sensor_data = NoReading
        /\ payload = NoPayload
        /\ measurement_count = 0
        /\ built = 0
        /\ sent = <<>>
        /\ posts = 0
        /\ ~ENABLED Next

C10_Witness ==
    /\ startup = "failed"
    /\ pc = "halted"
    /\ conn = "false"

\* C11: when connect_wifi is entered and its isconnected() read finds the
\* link up, the same step returns True: no association request, no poll, no
\* sleep, no blink, and its caller goes on with a True result.
C11_AlreadyConnectedReturns ==
    [][ (pc = "cw_entry" /\ reads' = <<TRUE>>) =>
          /\ conn' = "true"
          /\ assoc' = 0 /\ polls' = 0 /\ elapsed' = 0
          /\ led' = <<>>
          /\ slept' = <<>>
          /\ pc' # "cw_poll"
          /\ fault' = fault
          /\ ret = "startup" => (startup' = "ok" /\ pc' = "cycle")
          /\ ret = "gate" => (gates' = Append(gates, TRUE) /\ pc' = "build")
      ]_vars

C11_Witness ==
    /\ reads = <<TRUE>>
    /\ conn = "true"
    /\ startup = "ok"
    /\ pc = "cycle"
    /\ cycles = 0
    /\ led = <<>>

\* C12: when not connected, connect_wifi issues exactly one association
\* request, then polls every 2 seconds with exactly one 1-blink event per
\* poll until the link is up or 20 seconds have elapsed; it returns True iff
\* the link is connected at its final check, and it returns False only after
\* at least the timeout has elapsed.
C12_ConnectContract ==
    [][ /\ (pc = "cw_entry" /\ pc' = "cw_poll") => assoc' = 1
        /\ (pc = "cw_poll" /\ pc' = "cw_poll") =>
              /\ assoc' = assoc
              /\ polls' = polls + 1
              /\ elapsed < 20
              /\ led' = << <<1, 100>> >>
              /\ slept' = <<2>>
        /\ (pc = "cw_poll" /\ Len(reads') = 2) =>
              /\ assoc = 1
              /\ (conn' = "true") <=> reads'[2]
              /\ (conn' = "false") => elapsed >= 20
      ]_vars

\* ------------------------------------------------------------ mock sensor
\* The mock sensor functions, computed in fixed point: angles, sines,
\* temperatures and humidities are integers in thousandths, and round(_, 2)
\* turns thousandths into hundredths.  Products are rescaled step by step so
\* that every intermediate value fits a 32-bit integer.
BASE_TEMPERATURE == 25000
TEMP_VARIATION == 5000
BASE_HUMIDITY == 60000
HUMIDITY_VARIATION == 15000

\* every DrawStep-th value of getrandbits(10), from 0
DrawStep == 341

\* getrandbits(10)
Draws == {d \in 0..1023 : d % DrawStep = 0}

\* (hour_of_day - 6) * 3.14159 / 12
HourAngle(hour) == ((hour - 6) * 314159) \div 1200

RECURSIVE NormalizeDown(_)
\* math_sin_approx: while x > 6.28318: x -= 6.28318
NormalizeDown(x) == IF x > 6283 THEN NormalizeDown(x - 6283) ELSE x

RECURSIVE NormalizeUp(_)
\* math_sin_approx: while x < 0: x += 6.28318
NormalizeUp(x) == IF x < 0 THEN NormalizeUp(x + 6283) ELSE x

\* math_sin_approx, installed as math.sin:
\* x - (x**3)/6 + (x**5)/120 - (x**7)/5040 on the normalized x
math_sin_approx(x0) ==
    LET x == NormalizeUp(NormalizeDown(x0))
        x2 == (x * x) \div 1000
        t3 == ((x * x2) \div 1000) \div 6
        t5 == ((t3 * x2) \div 1000) \div 20
        t7 == ((((t5 \div 6) * x2) \div 1000)) \div 7
    IN  x - t3 + t5 - t7

\* daily_variation = 3.0 * math.sin((hour_of_day - 6) * 3.14159 / 12)
daily_variation(hour) == 3 * math_sin_approx(HourAngle(hour))

\* random_variation = (getrandbits(10) / 1024.0 - 0.5) * span
random_variation(bits, span) == ((bits - 512) * span) \div 1024

\* round(x, 2): thousandths to the nearest hundredth
Round2(m) == (m + 5) \div 10

\* generate_mock_temperature, in hundredths of a degree
generate_mock_temperature(hour, bits) ==
    Round2(BASE_TEMPERATURE + daily_variation(hour)
             + random_variation(bits, TEMP_VARIATION))

\* a variant of Clamp that leaves the humidity as computed
NoClamp(h) == h

\* humidity = max(20.0, min(95.0, humidity))
Clamp(h) ==
    LET lower == IF 95000 < h THEN 95000 ELSE h
    IN  IF 20000 > lower THEN 20000 ELSE lower

\* generate_mock_humidity: its locals and its result (in hundredths); it
\* calls generate_mock_temperature() itself, with a getrandbits draw of its
\* own
generate_mock_humidity(hour, tbits, hbits) ==
    LET resampled == generate_mock_temperature(hour, tbits)
        temp_factor == ((resampled * 10 - BASE_TEMPERATURE) * (-1)) \div 2
        rv == random_variation(hbits, HUMIDITY_VARIATION)
        unclamped == BASE_HUMIDITY + temp_factor + rv
    IN  [resampled |-> resampled,
         temp_factor |-> temp_factor,
         random_variation |-> rv,
         unclamped |-> unclamped,
         humidity |-> Round2(Clamp(unclamped))]

stationVars == <<ret, wlan, connVars, deliverVars, cycleVars, countVars,
                 fault, startup, conn, led, led_hw, led_int, slept, reads>>

\* get_sensor_readings is entered at some hour of the day
SensorInit ==
    /\ pc = "gen_temperature"
    /\ mock \in {[hour_of_day |-> hour] : hour \in 0..23}
    /\ ret = "none"
    /\ wlan = FALSE
    /\ elapsed = 0
    /\ polls = 0
    /\ assoc = 0
    /\ measurement_count = 0
    /\ sensor_data = NoReading
    /\ payload = NoPayload
    /\ attempt = 0
    /\ posts = 0
    /\ sleeps = 0
    /\ gates = <<>>
    /\ via = "none"
    /\ codes = <<>>
    /\ result = "none"
    /\ fault = "none"
    /\ startup = "pending"
    /\ conn = "none"
    /\ cycles = 0
    /\ built = 0
    /\ sent = <<>>
    /\ led = <<>>
    /\ led_hw = TRUE
    /\ led_int = FALSE
    /\ slept = <<>>
    /\ reads = <<>>
    /\ boot = NoReading
    /\ verify = NoReading

\* get_sensor_readings: temperature = generate_mock_temperature()
GenerateMockTemperature ==
    /\ pc = "gen_temperature"
    /\ \E bits \in Draws :
          mock' = [hour_of_day |-> mock.hour_of_day,
                   daily_variation |-> daily_variation(mock.hour_of_day),
                   temperature |->
                       generate_mock_temperature(mock.hour_of_day, bits)]
    /\ pc' = "gen_humidity"
    /\ UNCHANGED <<stationVars, boot, verify>>

\* get_sensor_readings: humidity = generate_mock_humidity(), and the
\* reading is returned
GenerateMockHumidity ==
    /\ pc = "gen_humidity"
    /\ \E tbits \in Draws, hbits \in Draws :
          mock' = [hour_of_day |-> mock.hour_of_day,
                   daily_variation |-> mock.daily_variation,
                   temperature |-> mock.temperature,
                   locals |-> generate_mock_humidity(mock.hour_of_day,
                                                     tbits, hbits)]
    /\ pc' = "read"
    /\ UNCHANGED <<stationVars, boot, verify>>

SensorNext ==
    \/ GenerateMockTemperature
    \/ GenerateMockHumidity

SensorSpec == SensorInit /\ [][SensorNext]_vars

\* C13: the humidity returned by generate_mock_humidity lies within
\* [20.0, 95.0] for every hour of day, every temperature sample and every
\* jitter draw, the extreme draws included.
C13_HumidityInRange ==
    pc = "read" =>
        /\ mock.locals.humidity >= 2000
        /\ mock.locals.humidity <= 9500

C13_Witness ==
    /\ pc = "read"
    /\ mock.locals.unclamped > 95000
    /\ mock.locals.humidity = 9500

\* C14: in every reading returned by get_sensor_readings the temperature is
\* sampled once and the humidity's correlation term comes from that reported
\* temperature: before clamping, humidity = BASE_HUMIDITY
\* - 0.5 * (reported temperature - BASE_TEMPERATURE) + humidity jitter.
C14_HumidityFromReportedTemperature ==
    pc = "read" =>
        /\ mock.locals.resampled = mock.temperature
        /\ mock.locals.unclamped =
               BASE_HUMIDITY
                 - ((mock.temperature * 10 - BASE_TEMPERATURE) \div 2)
                 + mock.locals.random_variation

\* everything but the LED hardware's answer
observed == <<pc, ret, wlan, elapsed, polls, assoc, measurement_count,
              sensor_data, payload, attempt, posts, sleeps, gates, via,
              codes, result, fault, startup, conn, cycles, built, sent, led,
              led_int, slept, reads, mock, boot, verify>>

\* C15: indicator failures never propagate and never change outcomes: a step
\* whose blinks fail on the LED hardware returns normally and leaves the
\* program exactly where the same step with a working LED leaves it (same
\* position, connect result, POSTs, deliver result, sleeps and cycle
\* scheduling), so the two runs stay equal step by step.
C15_LedFailureInvisible ==
    [][ (led' # <<>> /\ ~led_hw') =>
          /\ pc' # "stopped" \/ fault' # "none"
          /\ \E after \in {observed'} :
                ENABLED (Next /\ led_hw' /\ observed' = after)
      ]_vars

C15_Witness ==
    /\ ~led_hw
    /\ led = << <<2, 100>> >>
    /\ pc = "gc"
    /\ result = "true"
    /\ posts = 1

\* the number of 5-blink (exhausted) events among the last step's blinks
ExhaustedEvents == Cardinality({i \in 1..Len(led) : led[i] = <<5, 100>>})

\* C16: the exhausted event (5 blinks) is emitted exactly once by a deliver
\* invocation that returns False (by its returning step), never by one that
\* returns True, and not after a failed attempt while attempts remain.
C16_ExhaustedOnlyOnFalse ==
    /\ (pc = "gc" /\ result = "false") => ExhaustedEvents = 1
    /\ (pc = "gc" /\ result = "true") => ExhaustedEvents = 0
    /\ ~(pc = "gc" /\ result = "false") => ExhaustedEvents = 0

C16_Witness ==
    /\ pc = "gc"
    /\ result = "false"
    /\ posts = MAX_RETRIES
    /\ ExhaustedEvents = 1

AfterBoot == pc = "cw_entry" /\ ret = "startup"
AfterPoll == pc = "cw_poll" /\ polls > 0
AfterConnected == Len(reads) = 2 /\ conn = "true" /\ pc \in {"cycle", "build"}
AfterSendSuccess == pc = "gc" /\ result = "true"
AfterExhausted == pc = "gc" /\ result = "false"
AfterFatal == startup = "fatal"

\* C18: each lifecycle event maps to one fixed blink pattern: boot = 1 long
\* blink, connecting = 1 short blink per poll, connected = 3 short,
\* send-success = 2 short, send-exhausted = 5 short, fatal = 10 short, where
\* every short blink has the same duration (the poll blink's 100 ms) and that
\* duration is shorter than the long one (500 ms).
C18_PatternPerEvent ==
    \E short \in {100}, long \in {500} :
        /\ short < long
        /\ AfterBoot => led = << <<1, long>> >>
        /\ AfterPoll => led = << <<1, short>> >>
        /\ AfterConnected => led = << <<3, short>> >>
        /\ AfterSendSuccess => led = << <<2, short>> >>
        /\ AfterExhausted => led = << <<5, short>> >>
        /\ AfterFatal => led = << <<10, short>> >>

\* C18 as the program has it: the same counts, with the short blinks lasting
\* 100 ms except those of the connected event, which last 200 ms; both are
\* shorter than the boot blink's 500 ms.
C18_PatternPerEventAsBuilt ==
    \E short \in {100}, connected \in {200}, long \in {500} :
        /\ short < long /\ connected < long
        /\ AfterBoot => led = << <<1, long>> >>
        /\ AfterPoll => led = << <<1, short>> >>
        /\ AfterConnected => led = << <<3, connected>> >>
        /\ AfterSendSuccess => led = << <<2, short>> >>
        /\ AfterExhausted => led = << <<5, short>> >>
        /\ AfterFatal => led = << <<10, short>> >>

C18_Witness ==
    /\ AfterConnected
    /\ pc = "build"
    /\ via = "connect"
    /\ led = << <<3, 200>> >>

\* C19: in every payload built by create_measurement_payload,
\* networkInfo.rssi and networkInfo.ip are both defined when the link is
\* connected at the snapshot and both null otherwise; no payload has exactly
\* one of the two, even when the link drops during payload construction.
C19_RssiAndIpTogether ==
    pc = "send" =>
        /\ (payload.rssi = NULL) <=> (payload.ip = NULL)
        /\ (payload.rssi # NULL) <=> reads[1]

\* 1000 * sin(k * 15 degrees) for k = 0..6
Sin15 == <<0, 259, 500, 707, 866, 966, 1000>>

\* the reference 1000 * sin((hour - 6) * pi / 12), by the sine's symmetries
RefSin(hour) ==
    LET k == (hour - 6) % 24
    IN  IF k <= 6 THEN Sin15[k + 1]
        ELSE IF k <= 12 THEN Sin15[12 - k + 1]
        ELSE IF k <= 18 THEN 0 - Sin15[k - 12 + 1]
        ELSE 0 - Sin15[24 - k + 1]

\* |a - b|
Dist(a, b) == IF a >= b THEN a - b ELSE b - a

\* C20: for every hour_of_day in 0..23 the daily variation used by
\* generate_mock_temperature equals 3.0 * sin((hour_of_day - 6) * pi / 12)
\* up to a small tolerance (0.3 here, a tenth of the amplitude), so it lies
\* within [-3.0, 3.0] (up to that tolerance) and is about 0 at hours 6 and 18.
C20_DailyVariationIsSine ==
    pc # "gen_temperature" =>
        /\ Dist(mock.daily_variation, 3 * RefSin(mock.hour_of_day)) <= 300
        /\ mock.daily_variation >= 0 - 3300
        /\ mock.daily_variation <= 3300
        /\ mock.hour_of_day \in {6, 18} => Dist(mock.daily_variation, 0) <= 300

\* C21: in every cycle that raises no fault main_loop acquires the reading,
\* delivers, runs the reclamation pass and sleeps MEASUREMENT_INTERVAL, in
\* that order; a delivery that returns False is no fault: it too is followed
\* by the reclamation pass and the full interval sleep, not by the cooldown.
C21_CycleOrder ==
    [][ /\ (pc = "cycle" /\ pc' # "stopped") =>
              (pc' = "gate" /\ sensor_data' # NoReading /\ attempt' = 1)
        /\ (pc' = "gc" /\ pc # "gc") =>
              /\ sensor_data # NoReading
              /\ result' \in {"true", "false"}
              /\ fault' = "none"
        /\ (pc = "gc" /\ pc' # "stopped") =>
              (pc' = "cycle" /\ slept' = <<300>>)
        /\ (result' = "false" /\ result # "false") => pc' = "gc"
        /\ pc' = "cooldown" => (fault' # "none" /\ result' = "raised")
        /\ (pc = "cooldown" /\ pc' # "stopped") =>
              (pc' = "cycle" /\ slept' = <<30>>)
      ]_vars

C21_Witness ==
    /\ pc = "cycle"
    /\ cycles = 1
    /\ sent = <<>>
    /\ measurement_count = 0
    /\ slept = <<MEASUREMENT_INTERVAL>>

\* C22: within one cycle the payload is built once, before delivery, and
\* every attempt of the cycle's delivery sends that same payload:
\* measurement_count advances by at most 1 per cycle, however many attempts
\* are made.
C22_OnePayloadPerCycle ==
    /\ measurement_count <= cycles
    /\ (pc = "send" /\ posts > 0) =>
           payload.measurementCount = sent[Len(sent)]

\* positions inside a started cycle
InCycle == pc \in {"gate", "cw_entry", "cw_poll", "build", "send", "gc",
                   "cooldown"} /\ startup = "ok"

\* C23: every retry dimension is finite: connect_wifi ends after a bounded
\* number of polls (at most 10: 20 s in steps of at least 2 s), deliver ends
\* after at most MAX_RETRIES attempts, so every started cycle eventually
\* reaches its end (or is interrupted) and, absent an interrupt, the next
\* cycle eventually starts.
C23_EveryCycleEnds ==
    /\ [](polls <= 10 /\ elapsed <= 22)
    /\ [](attempt <= MAX_RETRIES /\ Len(gates) <= MAX_RETRIES
            /\ posts <= MAX_RETRIES)
    /\ InCycle ~> (pc \in {"cycle", "stopped"})
    /\ (pc = "cycle" /\ cycles < MaxCycles) ~> (pc \in {"gate", "stopped"})

C23_Witness ==
    /\ pc = "cw_poll"
    /\ polls = 10
    /\ attempt = MAX_RETRIES
    /\ ret = "gate"

\* C24: a transport-level timeout, connection failure or serialization error
\* raised during an HTTP POST never propagates out of send_measurement: it is
\* returned as False, counts as one failed attempt, and the retry loop goes
\* on with the remaining attempts.
C24_TransportErrorIsFailedAttempt ==
    [][ (pc = "send" /\ Len(codes') = Len(codes) + 1
           /\ codes'[Len(codes')] = TransportError) =>
          /\ fault' = "none"
          /\ result' # "raised"
          /\ posts' = posts + 1
          /\ attempt < MAX_RETRIES =>
                (attempt' = attempt + 1 /\ pc' = "gate" /\ result' = "none"
                   /\ slept' = <<RETRY_DELAY>>)
          /\ attempt = MAX_RETRIES => (pc' = "gc" /\ result' = "false")
      ]_vars

C24_Witness ==
    /\ pc = "send"
    /\ codes = <<TransportError>>
    /\ attempt = 2
    /\ fault = "none"

\* C25: a KeyboardInterrupt delivered at any point while main_loop is
\* running (during a sleep, an HTTP POST, a connectivity poll or an LED
\* blink) stops the loop: no further cycle, POST or payload build happens
\* after it (no step is taken once stopped).
C25_InterruptStops ==
    [][ /\ (startup = "ok"
              /\ (led_int' \/ (fault' = "KeyboardInterrupt"
                                 /\ fault # "KeyboardInterrupt"))) =>
              pc' = "stopped"
        /\ pc # "stopped"
      ]_vars

\* the attempts of the invocation whose send was skipped by a failed gate
Skipped == Cardinality({i \in 1..Len(gates) : ~gates[i]})

\* C26: a failed connectivity gate consumes one attempt of the budget: in
\* every deliver invocation the HTTP POSTs plus the gate-skipped attempts
\* never exceed MAX_RETRIES, and equal MAX_RETRIES whenever it returns False.
C26_SkipsCountAsAttempts ==
    /\ posts + Skipped <= MAX_RETRIES
    /\ (pc = "gc" /\ result = "false") => posts + Skipped = MAX_RETRIES

C26_Witness ==
    /\ pc = "gc"
    /\ result = "false"
    /\ posts = 2
    /\ Skipped = 1
    /\ gates = <<TRUE, FALSE, TRUE>>

\* C27: no two HTTP POSTs of one process lifetime carry the same
\* payload.measurementCount: over all attempts and cycles the values of
\* successive POSTs are strictly increasing, and the first POST carries 1.
C27_PostedCountsIncreaseFromOne ==
    /\ \A i \in 1..(Len(sent) - 1) : sent[i] < sent[i + 1]
    /\ sent # <<>> => sent[1] = 1

\* ------------------------------------------------------------ boot script
\* the weather station has not started
StationAtRest ==
    /\ ret = "none"
    /\ wlan = FALSE
    /\ elapsed = 0
    /\ polls = 0
    /\ assoc = 0
    /\ measurement_count = 0
    /\ sensor_data = NoReading
    /\ payload = NoPayload
    /\ attempt = 0
    /\ posts = 0
    /\ sleeps = 0
    /\ gates = <<>>
    /\ via = "none"
    /\ codes = <<>>
    /\ result = "none"
    /\ fault = "none"
    /\ startup = "pending"
    /\ conn = "none"
    /\ cycles = 0
    /\ built = 0
    /\ sent = <<>>
    /\ led = <<>>
    /\ led_hw = TRUE
    /\ led_int = FALSE
    /\ slept = <<>>
    /\ reads = <<>>

BOOT_DELAY == 3

\* what config.validate_config() can return (or do), by the marks of its
\* messages: every critical message starts with the cross mark, every
\* warning with the warning sign
ConfigOutcomes ==
    {[kind |-> "errors", marks |-> m] : m \in SUBSET {"critical", "warning"}}
      \cup {[kind |-> "ImportError", marks |-> {}],
            [kind |-> "raises", marks |-> {}]}

\* check_safe_mode: True iff GPIO0 reads low; a Pin error is swallowed
check_safe_mode(button) == button = "pressed"

\* `if "❌" in str(errors)`
HasCritical(marks) == "critical" \in marks

\* the config block of main_boot_sequence returns False
ConfigBlocks(config) ==
    IF config.kind = "errors" THEN HasCritical(config.marks) ELSE TRUE

\* `if __name__ == "__main__":` of main.py
EntryGuard(name) == name = "__main__"

\* the name main.py's module body sees when start_main_program runs it with
\* `import main`
ImportedName == "main"

BootInit ==
    /\ pc = "boot_safe"
    /\ boot \in [ENABLE_SAFE_MODE : BOOLEAN,
                 button : {"pressed", "released", "error"},
                 config : ConfigOutcomes,
                 interrupt_at : 0..BOOT_DELAY,
                 AUTO_START_MAIN : BOOLEAN,
                 main : {"ok", "ImportError"},
                 checks : {"pending"},
                 started : {FALSE},
                 launched : {FALSE}]
    /\ mock = NoReading
    /\ verify = NoReading
    /\ StationAtRest

BootVars == <<stationVars, mock, verify>>

\* main_boot_sequence: `if ENABLE_SAFE_MODE and check_safe_mode()`
CheckSafeMode ==
    /\ pc = "boot_safe"
    /\ IF boot.ENABLE_SAFE_MODE /\ check_safe_mode(boot.button)
         THEN boot' = [boot EXCEPT !.checks = FALSE] /\ pc' = "boot_exec"
         ELSE boot' = boot /\ pc' = "boot_config"
    /\ UNCHANGED BootVars

\* main_boot_sequence: import config, validate_config(), critical errors
CheckConfig ==
    /\ pc = "boot_config"
    /\ IF ConfigBlocks(boot.config)
         THEN boot' = [boot EXCEPT !.checks = FALSE] /\ pc' = "boot_exec"
         ELSE boot' = boot /\ pc' = "boot_countdown"
    /\ UNCHANGED BootVars

\* main_boot_sequence: the countdown, interrupted at second interrupt_at
\* (0: not interrupted), and the return
Countdown ==
    /\ pc = "boot_countdown"
    /\ boot' = [boot EXCEPT !.checks = ~(BOOT_DELAY > 0 /\ boot.interrupt_at > 0)]
    /\ pc' = "boot_exec"
    /\ UNCHANGED BootVars

\* boot execution: `if main_boot_sequence(): if AUTO_START_MAIN:`
BootExecution ==
    /\ pc = "boot_exec"
    /\ IF boot.checks /\ boot.AUTO_START_MAIN
         THEN boot' = [boot EXCEPT !.started = TRUE] /\ pc' = "boot_start"
         ELSE boot' = boot /\ pc' = "boot_end"
    /\ UNCHANGED BootVars

\* start_main_program: `import main` runs main.py's module body; its entry
\* point calls startup_sequence only behind EntryGuard
StartMainProgram ==
    /\ pc = "boot_start"
    /\ boot' = [boot EXCEPT !.launched =
                   boot.main = "ok" /\ EntryGuard(ImportedName)]
    /\ pc' = "boot_end"
    /\ UNCHANGED BootVars

BootNext ==
    \/ CheckSafeMode
    \/ CheckConfig
    \/ Countdown
    \/ BootExecution
    \/ StartMainProgram

BootSpec == BootInit /\ [][BootNext]_vars

\* all boot checks pass: no safe mode (when enabled), no critical error and
\* nothing raised by the config check, countdown not interrupted
ChecksPass ==
    /\ ~(boot.ENABLE_SAFE_MODE /\ boot.button = "pressed")
    /\ boot.config.kind = "errors"
    /\ "critical" \notin boot.config.marks
    /\ boot.interrupt_at = 0

\* C28: the boot script starts the main program only when all boot checks
\* pass and AUTO_START_MAIN is true; warnings alone do not block the start;
\* and when the checks pass with AUTO_START_MAIN set (and main.py can be
\* imported) the weather-station loop is launched.
C28_BootStartsMain ==
    /\ boot.started => (ChecksPass /\ boot.AUTO_START_MAIN)
    /\ (pc = "boot_end" /\ ChecksPass /\ boot.AUTO_START_MAIN) => boot.started
    /\ (pc = "boot_end" /\ ChecksPass /\ boot.AUTO_START_MAIN
          /\ boot.main = "ok") => boot.launched

\* ------------------------------------------------------------ backfill tool
\* the records of a query response that the model draws (the query asks for
\* 10)
MaxRecords == 2

\* createdAt minus the sent time, in seconds
Deltas == {0, 59, 60}

\* the createdAt field of a stored record: absent or empty, not an ISO
\* string, an ISO string without offset, or one ending in Z
CreatedAts ==
    {[form |-> f, at |-> 0] : f \in {"none", "malformed"}}
      \cup {[form |-> f, at |-> d] : f \in {"naive", "utc"}, d \in Deltas}

Measurements ==
    [deviceId : {"sent", "other"}, temperature : {NULL, "value"},
     createdAt : CreatedAts]

\* the answer to requests.get: a 200 with a JSON body, a 200 whose body is
\* not JSON, another status, or an exception of the request
QueryAnswers ==
    {[kind |-> k, data |-> <<>>] : k \in {"not_json", "status", "exception"}}
      \cup {[kind |-> "ok", data |-> d] :
              d \in UNION {[1..n -> Measurements] : n \in 0..MaxRecords}}

\* parse_time_string: datetime.now(), now +/- timedelta, or strptime with a
\* format without %z: the result never carries a timezone
sent_time == [aware |-> FALSE, at |-> 0]

\* datetime.fromisoformat(created_at.replace('Z', '+00:00')) raises
\* ValueError unless the string is in ISO format
IsIsoFormat(created_at) == created_at.form \in {"naive", "utc"}

\* datetime.fromisoformat(created_at.replace('Z', '+00:00')): a datetime,
\* timezone-aware iff the string carries an offset
fromisoformat(created_at) ==
    [aware |-> created_at.form = "utc", at |-> created_at.at]

\* `created_time - sent_time` raises TypeError when one datetime is aware
\* and the other naive
CanSubtract(created_time, sent_at) == created_time.aware = sent_at.aware

\* abs((created_time - sent_time).total_seconds())
time_diff(created_time, sent_at) ==
    IF created_time.at >= sent_at.at THEN created_time.at - sent_at.at
    ELSE sent_at.at - created_time.at

\* the body of verify_sent_data's for loop reaches `return True` for this
\* measurement; every exception inside is swallowed by the bare except
Found(measurement, device_id, sent_at) ==
    /\ measurement.deviceId = device_id
    /\ measurement.temperature # NULL
    /\ measurement.createdAt.form # "none"
    /\ IsIsoFormat(measurement.createdAt)
    /\ CanSubtract(fromisoformat(measurement.createdAt), sent_at)
    /\ time_diff(fromisoformat(measurement.createdAt), sent_at) < 60

\* verify_sent_data's return value
verify_sent_data(answer, device_id, sent_at) ==
    /\ answer.kind = "ok"
    /\ \E i \in 1..Len(answer.data) : Found(answer.data[i], device_id, sent_at)

VerifyInit ==
    /\ pc = "verify"
    /\ verify \in [answer : QueryAnswers, returned : {"pending"}]
    /\ mock = NoReading
    /\ boot = NoReading
    /\ StationAtRest

\* main: verify_sent_data(args.api_url, args.device, recorded_at, ...)
VerifySentData ==
    /\ pc = "verify"
    /\ verify' = [verify EXCEPT
                    !.returned = verify_sent_data(verify.answer, "sent",
                                                  sent_time)]
    /\ pc' = "verified"
    /\ UNCHANGED <<stationVars, mock, boot>>

VerifyNext == VerifySentData

VerifySpec == VerifyInit /\ [][VerifyNext]_vars

\* one of the returned records has the sent device id, a temperature and a
\* createdAt within 60 seconds of the sent measurement time
Stored ==
    /\ verify.answer.kind = "ok"
    /\ \E i \in 1..Len(verify.answer.data) :
          LET m == verify.answer.data[i]
          IN  /\ m.deviceId = "sent"
              /\ m.temperature # NULL
              /\ m.createdAt.form \in {"naive", "utc"}
              /\ m.createdAt.at < 60
              /\ m.createdAt.at > 0 - 60

\* C29: verify_sent_data returns True exactly when one of the most recent
\* records returned by the query endpoint has the sent device id, a non-null
\* temperature and a createdAt within 60 seconds of the sent measurement
\* time; otherwise it returns False, and it never raises.
C29_VerifiedIffStored ==
    pc = "verified" =>
        /\ verify.returned \in BOOLEAN
        /\ verify.returned <=> Stored

=============================================================================
